---------------------------- MODULE Spec2Model ----------------------------
(***************************************************************************)
(* A model of the SURFRAD reader: the station registry, the line decoder   *)
(* (ParseLine / ParseTimestamp), the sentinel normaliser                   *)
(* (OmitInvalidOrMissing), the header parser and the stream reader         *)
(* (ReadData).                                                             *)
(*                                                                         *)
(* Representation.  A string that the code only compares is a TLA+ string  *)
(* atom inside a sequence; a string that the code parses is the sequence   *)
(* of its characters, so that strconv's conversions are computed from the  *)
(* characters.  A float64 is held exactly as an integer count of           *)
(* 10^-FracDigits units; the tokens of the model carry at most FracDigits  *)
(* fraction digits, for which the conversion is exact.  A time.Time is the *)
(* instant counted from 0000-03-01T00:00Z of the proleptic Gregorian       *)
(* calendar, as whole days and the minute of the day (seconds and          *)
(* nanoseconds are always zero in this program).                           *)
(***************************************************************************)
EXTENDS Integers, Sequences, FiniteSets, TLC

VARIABLES
    rd,        \* the activation of ReadData: scanner, station, errs, lineNo, pc
    nameTwin,  \* the same call on the same stream with a registered name on line 1
    skipTwin,  \* the same call on the same stream without its short data lines
    call,      \* a direct call of a library function: its name and its argument
    out        \* what that call returned

vars == <<rd, nameTwin, skipTwin, call, out>>

---------------------------------------------------------------------------
(* Bounds of the model *)

\* data lines offered to one ReadData call
MaxLines == 2

\* tokens a decoded line may carry beyond the 48 columns of the format
MaxExtra == 1

\* fraction digits kept by the fixed-point image of float64
FracDigits == 3

---------------------------------------------------------------------------
(* Errors: nil, or a record naming the message *)

Nil == [kind |-> "nil"]

Err(kind) == [kind |-> kind]

\* errors.Join: nil when every element is nil, else the non-nil ones joined
Join(errs) ==
    LET real == SelectSeq(errs, LAMBDA e : e # Nil)
    IN  IF real = <<>> THEN Nil ELSE [kind |-> "join", errs |-> real]

---------------------------------------------------------------------------
(* strconv over character sequences *)

Digits == {"0", "1", "2", "3", "4", "5", "6", "7", "8", "9"}

DigitVal(c) ==
    CASE c = "0" -> 0 [] c = "1" -> 1 [] c = "2" -> 2 [] c = "3" -> 3
      [] c = "4" -> 4 [] c = "5" -> 5 [] c = "6" -> 6 [] c = "7" -> 7
      [] c = "8" -> 8 [] c = "9" -> 9

AllDigits(s) == \A i \in 1..Len(s) : s[i] \in Digits

RECURSIVE NatOf(_)
NatOf(s) ==
    IF s = <<>> THEN 0
    ELSE NatOf(SubSeq(s, 1, Len(s) - 1)) * 10 + DigitVal(s[Len(s)])

RECURSIVE Pow10(_)
Pow10(n) == IF n = 0 THEN 1 ELSE 10 * Pow10(n - 1)

Scale == Pow10(FracDigits)

HasSign(s) == Len(s) > 0 /\ s[1] \in {"-", "+"}

Unsigned(s) == IF HasSign(s) THEN Tail(s) ELSE s

Signed(s, n) == IF HasSign(s) /\ s[1] = "-" THEN 0 - n ELSE n

\* strconv.Atoi: an optional sign and one or more decimal digits
AtoiDigits(s, body) ==
    IF body # <<>> /\ AllDigits(body)
    THEN [val |-> Signed(s, NatOf(body)), err |-> Nil]
    ELSE [val |-> 0, err |-> Err("strconv.Atoi: invalid syntax")]

Atoi(s) == AtoiDigits(s, Unsigned(s))

\* the fraction digits of a decimal, as a count of 10^-FracDigits
FracKept(kept) == NatOf(kept) * Pow10(FracDigits - Len(kept))

FracOf(f) == FracKept(SubSeq(f, 1, IF Len(f) < FracDigits THEN Len(f) ELSE FracDigits))

\* the index of the first point of a decimal, or one past its end
FirstDot(body, dots) ==
    IF dots = {} THEN Len(body) + 1
    ELSE CHOOSE i \in dots : \A j \in dots : i <= j

\* strconv.ParseFloat on decimal notation: an optional sign, digits, an
\* optional point and digits, with at least one digit in all
ParseFloatParts(s, ip, fp) ==
    IF AllDigits(ip) /\ AllDigits(fp) /\ Len(ip) + Len(fp) > 0
    THEN [val |-> Signed(s, NatOf(ip) * Scale + FracOf(fp)), err |-> Nil]
    ELSE [val |-> 0, err |-> Err("strconv.ParseFloat: invalid syntax")]

ParseFloatAt(s, body, dot) ==
    ParseFloatParts(s, SubSeq(body, 1, dot - 1), SubSeq(body, dot + 1, Len(body)))

ParseFloatBody(s, body) ==
    ParseFloatAt(s, body, FirstDot(body, {i \in 1..Len(body) : body[i] = "."}))

ParseFloat(s) == ParseFloatBody(s, Unsigned(s))

parseFloatResult(r) == IF r.err # Nil THEN 0 ELSE r.val

parseFloat(s) == parseFloatResult(ParseFloat(s))

---------------------------------------------------------------------------
(* time.Date(year, month, day, hour, min, 0, 0, time.UTC) *)

\* days from 0000-03-01 to the first of month mm (0 = March .. 11 = February)
\* of the year that begins in March of year yy
DaysToEra(yy, mm, era) ==
    era * 146097 + (yy - era * 400) * 365 + (yy - era * 400) \div 4
        - (yy - era * 400) \div 100 + (153 * mm + 2) \div 5

\* days from 0000-03-01 to the first of month m (1..12) of year y
DaysToMonth(y, m) ==
    IF m <= 2 THEN DaysToEra(y - 1, m + 9, (y - 1) \div 400)
    ELSE DaysToEra(y, m - 3, y \div 400)

\* time.Date normalises a month outside 1..12 into the year, the minute into
\* the hour and the hour into the day; the day then counts on from the first
\* of the month
DateNorm(y, m, d, h, min) ==
    [day |-> DaysToMonth(y, m) + d + h \div 24 - 1, min |-> (h % 24) * 60 + min]

Date(year, month, day, hour, min) ==
    DateNorm(year + (month - 1) \div 12, ((month - 1) % 12) + 1, day,
             hour + min \div 60, min % 60)

\* time.Time{}: January 1, year 1, 00:00 UTC
ZeroTime == Date(1, 1, 1, 0, 0)

IsZero(t) == t = ZeroTime

---------------------------------------------------------------------------
(* The station registry *)

StationBondville     == <<"Bondville">>
StationFortPeck      == <<"Fort", " ", "Peck">>
StationGoodwinCreek  == <<"Goodwin", " ", "Creek">>
StationTableMountain == <<"Table", " ", "Mountain">>
StationDesertRock    == <<"Desert", " ", "Rock">>
StationPennState     == <<"Penn", " ", "State">>
StationSiouxFalls    == <<"Sioux", " ", "Falls">>

StationIDBondville     == <<"b", "o", "n">>
StationIDFortPeck      == <<"f", "p", "k">>
StationIDGoodwinCreek  == <<"g", "w", "n">>
StationIDTableMountain == <<"t", "b", "l">>
StationIDDesertRock    == <<"d", "r", "a">>
StationIDPennState     == <<"p", "s", "u">>
StationIDSiouxFalls    == <<"s", "x", "f">>

\* the zero values of StationName ("") and of StationID ([3]rune{0, 0, 0})
NoStationName == <<>>
NoStationID   == <<"", "", "">>

\* a registry whose Penn State and Sioux Falls names are exchanged
StationIDToNameSwapped ==
    (StationIDBondville     :> StationBondville)
 @@ (StationIDFortPeck      :> StationFortPeck)
 @@ (StationIDGoodwinCreek  :> StationGoodwinCreek)
 @@ (StationIDTableMountain :> StationTableMountain)
 @@ (StationIDDesertRock    :> StationDesertRock)
 @@ (StationIDPennState     :> StationSiouxFalls)
 @@ (StationIDSiouxFalls    :> StationPennState)

StationIDToName ==
    (StationIDBondville     :> StationBondville)
 @@ (StationIDFortPeck      :> StationFortPeck)
 @@ (StationIDGoodwinCreek  :> StationGoodwinCreek)
 @@ (StationIDTableMountain :> StationTableMountain)
 @@ (StationIDDesertRock    :> StationDesertRock)
 @@ (StationIDPennState     :> StationPennState)
 @@ (StationIDSiouxFalls    :> StationSiouxFalls)

NameToStationID ==
    (StationBondville     :> StationIDBondville)
 @@ (StationFortPeck      :> StationIDFortPeck)
 @@ (StationGoodwinCreek  :> StationIDGoodwinCreek)
 @@ (StationTableMountain :> StationIDTableMountain)
 @@ (StationDesertRock    :> StationIDDesertRock)
 @@ (StationPennState     :> StationIDPennState)
 @@ (StationSiouxFalls    :> StationIDSiouxFalls)

ValidateStationID(sid) == sid \in DOMAIN StationIDToName

ValidateStationName(sn) == sn \in DOMAIN NameToStationID

GetStationID(sn) ==
    IF sn \in DOMAIN NameToStationID
    THEN [sid |-> NameToStationID[sn], ok |-> TRUE]
    ELSE [sid |-> NoStationID, ok |-> FALSE]

GetStationName(sid) ==
    IF sid \in DOMAIN StationIDToName
    THEN [sn |-> StationIDToName[sid], ok |-> TRUE]
    ELSE [sn |-> NoStationName, ok |-> FALSE]

---------------------------------------------------------------------------
(* Data, RawEntryTime *)

\* the integer fields of RawEntryTime in the order ParseTimestamp reads them
\* from fields[0..5]
RawIntFields == <<"Year", "JDay", "Month", "Day", "Hour", "Minute">>

\* the float64 fields of Data in the order of the struct
Measurements ==
    << "SolarZenithAngle", "DownwellingSolar", "UpwellingSolar",
       "DirectNormalSolar", "DownwellingDiffuseSolar", "DownwellingIR",
       "DownwellingIRCaseTemp", "DownwellingIRDomeTemp", "UpwellingIR",
       "UpwellingIRCaseTemp", "UpwellingIRDomeTemp", "GlobalUVB",
       "PhotosyntheticallyActiveRadiation", "NetSolar", "NetIR",
       "TotalNetRadiation", "TemperatureC", "RelativeHumidity",
       "WindSpeedMetersPerSecond", "WindDirectionDegrees",
       "BarometricPressure" >>

MeasurementSet == {Measurements[k] : k \in 1..Len(Measurements)}

DataFields == {"RawTimestamp", "Timestamp"} \cup MeasurementSet

\* reflect's Kind of each field of Data
Kind(name) ==
    IF name \in {"RawTimestamp", "Timestamp"} THEN "struct" ELSE "float64"

ZeroRaw ==
    [Year |-> 0, Month |-> 0, Day |-> 0, JDay |-> 0, Hour |-> 0, Minute |-> 0,
     Decimal |-> 0]

\* new(Data)
ZeroData ==
    [name \in DataFields |->
        IF name = "RawTimestamp" THEN ZeroRaw
        ELSE IF name = "Timestamp" THEN ZeroTime
        ELSE 0]

\* the sentinels of OmitInvalidOrMissing: the float64 -9999.9 and the int -9999
SentinelFloat == 0 - (9999 * Scale + 9 * (Scale \div 10))

SentinelInt == -9999

---------------------------------------------------------------------------
(* The line decoder *)

\* the six Atoi conversions of ParseTimestamp, each returning at its error
\* with the fields converted so far in place (k counts from 1)
RECURSIVE ParseRawInts(_, _, _)
ParseRawInts(raw, fields, k) ==
    IF k > Len(RawIntFields) THEN [raw |-> raw, err |-> Nil]
    ELSE IF Atoi(fields[k]).err # Nil
    THEN [raw |-> [raw EXCEPT ![RawIntFields[k]] = 0], err |-> Atoi(fields[k]).err]
    ELSE ParseRawInts([raw EXCEPT ![RawIntFields[k]] = Atoi(fields[k]).val],
                      fields, k + 1)

\* the timestamp built from the converted integers, or their error
TimestampOf(d, raw) ==
    [d   |-> [d EXCEPT !.RawTimestamp = raw,
                       !.Timestamp = Date(raw.Year, raw.Month, raw.Day,
                                          raw.Hour, raw.Minute)],
     err |-> Nil]

TimestampFrom(d, fields, ints) ==
    IF ints.err # Nil
    THEN [d |-> [d EXCEPT !.RawTimestamp = ints.raw], err |-> ints.err]
    ELSE TimestampOf(d, [ints.raw EXCEPT !.Decimal = parseFloat(fields[7])])

\* ParseTimestamp building the calendar day from the Julian-day token
ParseTimestampByJDay(d, fields) ==
    IF Len(fields) < 7 THEN [d |-> d, err |-> Err("incomplete timestamp")]
    ELSE TimestampFrom(d, fields,
            ParseRawInts(d.RawTimestamp,
                         [fields EXCEPT ![4] = fields[2]], 1))

ParseTimestamp(d, fields) ==
    IF Len(fields) < 7 THEN [d |-> d, err |-> Err("incomplete timestamp")]
    ELSE TimestampFrom(d, fields, ParseRawInts(d.RawTimestamp, fields, 1))

\* the normaliser without its float64 case
OmitNothing(d) == d

\* reflection over the fields of Data itself: a float64 field equal to
\* -9999.9 and an int field equal to -9999 are set to zero, a zero time.Time
\* is set to the zero time.Time; a field of struct kind is not entered
OmitInvalidOrMissing(d) ==
    [name \in DOMAIN d |->
        IF Kind(name) = "float64" /\ d[name] = SentinelFloat THEN 0
        ELSE IF Kind(name) = "int" /\ d[name] = SentinelInt THEN 0
        ELSE IF name = "Timestamp" /\ IsZero(d[name]) THEN ZeroTime
        ELSE d[name]]

\* the switch of ParseLine: the field assigned from the token at index i
\* (counting from 0); the indices not in the domain assign nothing
Column ==
    (7 :> "SolarZenithAngle")
 @@ (8 :> "DownwellingSolar")
 @@ (10 :> "UpwellingSolar")
 @@ (12 :> "DirectNormalSolar")
 @@ (14 :> "DownwellingDiffuseSolar")
 @@ (16 :> "DownwellingIR")
 @@ (18 :> "DownwellingIRCaseTemp")
 @@ (20 :> "DownwellingIRDomeTemp")
 @@ (22 :> "UpwellingIR")
 @@ (24 :> "UpwellingIRCaseTemp")
 @@ (26 :> "UpwellingIRDomeTemp")
 @@ (28 :> "GlobalUVB")
 @@ (30 :> "PhotosyntheticallyActiveRadiation")
 @@ (32 :> "NetSolar")
 @@ (34 :> "NetIR")
 @@ (36 :> "TotalNetRadiation")
 @@ (38 :> "TemperatureC")
 @@ (40 :> "RelativeHumidity")
 @@ (42 :> "WindSpeedMetersPerSecond")
 @@ (44 :> "WindDirectionDegrees")
 @@ (46 :> "BarometricPressure")

\* for i, field := range fields { switch i { ... } }
RECURSIVE RangeFields(_, _, _)
RangeFields(data, fields, i) ==
    IF i >= Len(fields) THEN data
    ELSE RangeFields(
            IF i \in DOMAIN Column
            THEN [data EXCEPT ![Column[i]] = parseFloat(fields[i + 1])]
            ELSE data,
            fields, i + 1)

ParseLineFrom(fields, ts) ==
    IF ts.err # Nil THEN [data |-> ts.d, err |-> ts.err]
    ELSE [data |-> OmitInvalidOrMissing(RangeFields(ts.d, fields, 7)),
          err  |-> IF Len(fields) < 47 THEN Err("incomplete record")
                   ELSE Nil]

ParseLine(fields) == ParseLineFrom(fields, ParseTimestamp(ZeroData, fields))

---------------------------------------------------------------------------
(* Tokens and lines offered to the decoder *)

DigitChar(n) ==
    CASE n = 0 -> "0" [] n = 1 -> "1" [] n = 2 -> "2" [] n = 3 -> "3"
      [] n = 4 -> "4" [] n = 5 -> "5" [] n = 6 -> "6" [] n = 7 -> "7"
      [] n = 8 -> "8" [] n = 9 -> "9"

\* the decimal digits of a natural number
RECURSIVE Num(_)
Num(n) == IF n < 10 THEN <<DigitChar(n)>> ELSE Append(Num(n \div 10), DigitChar(n % 10))

\* "ip.frac"
Dec(ip, frac) == Num(ip) \o <<".">> \o frac

Neg(tok) == <<"-">> \o tok

Missing == Neg(Dec(9999, <<"9">>))

Flag0 == Num(0)

Flag1 == Num(1)

\* the "valid data line" of TestParseLine
ValidLine ==
    << Num(2024), Num(48), Num(2), Num(17), Num(23), Num(59),
       Dec(23, <<"9", "8", "3">>), Dec(74, <<"3", "7">>),
       Dec(136, <<"8">>), Flag0, Dec(28, <<"3">>), Flag0,
       Dec(49, <<"4">>), Flag0, Dec(126, <<"7">>), Flag0,
       Dec(320, <<"1">>), Flag0, Dec(289, <<"6", "8">>), Flag0,
       Dec(289, <<"4", "3">>), Flag0, Dec(396, <<"8">>), Flag0,
       Dec(288, <<"5", "5">>), Flag0, Dec(288, <<"6", "1">>), Flag0,
       Dec(9, <<"8">>), Flag0, Dec(62, <<"0">>), Flag0,
       Dec(111, <<"7">>), Flag0, Neg(Dec(76, <<"7">>)), Flag0,
       Dec(35, <<"0">>), Flag0, Dec(15, <<"1">>), Flag0,
       Dec(29, <<"0">>), Flag0, Dec(5, <<"1">>), Flag0,
       Dec(106, <<"8">>), Flag0, Dec(903, <<"6">>), Flag0 >>

\* a line of the format whose 21 measurements are all -9999.9, as in the
\* "missing value" case of TestParseLine
MissingLine ==
    [i \in 1..48 |->
        IF i <= 6 THEN <<Num(1995), Num(1), Num(1), Num(1), Num(0), Num(0)>>[i]
        ELSE IF i = 7 THEN Dec(0, <<"0">>)
        ELSE IF i = 8 \/ i % 2 = 1 THEN Missing
        ELSE Flag1]

\* the first n tokens of a line, continued with flags beyond its end
Cut(line, n) == [i \in 1..n |-> IF i <= Len(line) THEN line[i] ELSE Flag0]

\* a line with the token at index p (from 0) replaced
Poke(line, p, tok) == [i \in 1..Len(line) |-> IF i = p + 1 THEN tok ELSE line[i]]

\* token counts around the thresholds 7, 29 and 47 of the code
Lens == {0, 6, 7, 8, 28, 29, 30, 46, 47} \cup (48 .. 48 + MaxExtra)

\* tokens put in place of one token of a line
PokeTokens ==
    { Missing, Neg(Num(9999)), Neg(Dec(9999, <<"9", "0">>)), <<"n", "/", "a">>,
      Num(0), Dec(12, <<"5">>), <<"+">> \o Num(7), <<".">>, <<".", "5">>,
      Neg(Dec(9999, <<"8">>)) }

FieldLists ==
    { Cut(base, n) : base \in {ValidLine, MissingLine}, n \in Lens }
    \cup
    { Poke(Cut(base, n), p, t) :
        base \in {ValidLine, MissingLine}, n \in Lens \ {0},
        p \in 0 .. (48 + MaxExtra), t \in PokeTokens }

\* entries handed to the normaliser: a decoded line, and an entry whose every
\* number is its type's sentinel, each with one number replaced
AllSentinel ==
    [name \in DataFields |->
        IF name = "RawTimestamp"
        THEN [Year |-> SentinelInt, Month |-> SentinelInt, Day |-> SentinelInt,
              JDay |-> SentinelInt, Hour |-> SentinelInt, Minute |-> SentinelInt,
              Decimal |-> SentinelFloat]
        ELSE IF name = "Timestamp" THEN ZeroTime
        ELSE SentinelFloat]

IntValues == {SentinelInt, 0, 7, 0 - 9998}

FloatValues == {SentinelFloat, 0, SentinelInt * Scale, SentinelFloat + 1, 5 * Scale}

Entries ==
    LET bases == {ParseLine(ValidLine).data, AllSentinel, ZeroData}
    IN  bases
        \cup { [b EXCEPT ![m] = v] : b \in bases, m \in MeasurementSet, v \in FloatValues }
        \cup { [b EXCEPT !.RawTimestamp.Decimal = v] : b \in bases, v \in FloatValues }
        \cup { [b EXCEPT !.RawTimestamp[f] = v] :
                 b \in bases, f \in {RawIntFields[k] : k \in 1..6}, v \in IntValues }
        \cup { [b EXCEPT !.Timestamp = t] : b \in bases, t \in {ZeroTime, Date(1995, 1, 1, 0, 0)} }

StationIDs ==
    DOMAIN StationIDToName
    \cup { <<"x", "y", "z">>, NoStationID, <<"B", "O", "N">>, <<"b", "o", "x">>,
           <<"n", "o", "b">> }

StationNames ==
    DOMAIN NameToStationID
    \cup { <<"Nowhere,", " ", "Narnia">>, NoStationName, <<"bondville">>,
           <<"Desert", " ", " ", "Rock">>, <<"Desert">>, <<"bon">> }

---------------------------------------------------------------------------
(* Direct calls of the library functions *)

NoCall == [fn |-> "none"]

NoOut == [done |-> FALSE]

Returned(v) == [done |-> TRUE, val |-> v]

\* a ReadData activation that is not running
Idle == [pc |-> "idle"]

Pending(fn) == call.fn = fn /\ ~out.done

InitLib ==
    /\ rd = Idle /\ nameTwin = Idle /\ skipTwin = Idle
    /\ out = NoOut
    /\ \/ \E f \in FieldLists : call = [fn |-> "ParseLine", arg |-> f]
       \/ \E d \in Entries : call = [fn |-> "OmitInvalidOrMissing", arg |-> d]
       \/ \E sid \in StationIDs :
            call \in {[fn |-> "GetStationName", arg |-> sid],
                      [fn |-> "ValidateStationID", arg |-> sid]}
       \/ \E sn \in StationNames :
            call \in {[fn |-> "GetStationID", arg |-> sn],
                      [fn |-> "ValidateStationName", arg |-> sn]}

CallParseLine ==
    /\ Pending("ParseLine")
    /\ out' = Returned(ParseLine(call.arg))
    /\ UNCHANGED <<rd, nameTwin, skipTwin, call>>

CallOmitInvalidOrMissing ==
    /\ Pending("OmitInvalidOrMissing")
    /\ out' = Returned(OmitInvalidOrMissing(call.arg))
    /\ UNCHANGED <<rd, nameTwin, skipTwin, call>>

CallGetStationName ==
    /\ Pending("GetStationName")
    /\ out' = Returned(GetStationName(call.arg))
    /\ UNCHANGED <<rd, nameTwin, skipTwin, call>>

CallGetStationID ==
    /\ Pending("GetStationID")
    /\ out' = Returned(GetStationID(call.arg))
    /\ UNCHANGED <<rd, nameTwin, skipTwin, call>>

CallValidateStationID ==
    /\ Pending("ValidateStationID")
    /\ out' = Returned(ValidateStationID(call.arg))
    /\ UNCHANGED <<rd, nameTwin, skipTwin, call>>

CallValidateStationName ==
    /\ Pending("ValidateStationName")
    /\ out' = Returned(ValidateStationName(call.arg))
    /\ UNCHANGED <<rd, nameTwin, skipTwin, call>>

NextLib ==
    \/ CallParseLine
    \/ CallOmitInvalidOrMissing
    \/ CallGetStationName
    \/ CallGetStationID
    \/ CallValidateStationID
    \/ CallValidateStationName

SpecLib == InitLib /\ [][NextLib]_vars

---------------------------------------------------------------------------
(* Lines of text *)

\* A name line is the sequence of its words and white-space characters.  A
\* header or data line is the sequence of its tokens and white-space
\* characters, each token the sequence of its characters.
Blank == {" ", "\t"}

Space == {<<" ">>, <<"\t">>}

\* strings.TrimSpace: the line without its leading and trailing white space
RECURSIVE TrimSpace(_)
TrimSpace(line) ==
    IF line = <<>> THEN line
    ELSE IF Head(line) \in Blank THEN TrimSpace(Tail(line))
    ELSE IF line[Len(line)] \in Blank THEN TrimSpace(SubSeq(line, 1, Len(line) - 1))
    ELSE line

\* strings.Fields: the maximal runs of non-space characters
Fields(line) == SelectSeq(line, LAMBDA seg : seg \notin Space)

---------------------------------------------------------------------------
(* bufio.Scanner *)

\* What the reader does at one call of Scan when the scanner has not stopped:
\* a full line arrives; or the stream ends (EOF); or the read fails; or the
\* stream ends or fails after an unterminated last line, which Scan still
\* delivers as a token.
Line(text) == [tok |-> TRUE, text |-> text, err |-> "nil"]

LastLine(text, e) == [tok |-> TRUE, text |-> text, err |-> e]

Stop(e) == [tok |-> FALSE, text |-> <<>>, err |-> e]

NewScanner == [err |-> "nil"]

\* Scan: once the scanner holds an error (io.EOF included) it delivers no
\* further token
Scan(sc, o) ==
    IF sc.err # "nil" THEN [ok |-> FALSE, text |-> <<>>, scanner |-> sc]
    ELSE [ok |-> o.tok, text |-> o.text, scanner |-> [err |-> o.err]]

\* Scanner.Err: the first non-EOF error met
ScanErr(sc) == IF sc.err \in {"nil", "EOF"} THEN Nil ELSE Err(sc.err)

---------------------------------------------------------------------------
(* Station.ParseHeader *)

NewStation ==
    [StationName |-> NoStationName,
     LocatedAt   |-> [Latitude |-> 0, Longitude |-> 0, Elevation |-> 0],
     Version     |-> 0,
     Entries     |-> <<>>]

\* ParseHeader's progress: the station as assigned so far and its errs
HeaderStart(s, headerInfo) ==
    [s    |-> s,
     errs |-> IF Len(headerInfo) < 6 THEN <<Err("invalid header length")>> ELSE <<>>]

\* one conversion of ParseHeader: the value is assigned whether or not the
\* conversion failed, and a failure is appended to errs
Assigned(h, s, conv, kind) ==
    [s    |-> s,
     errs |-> IF conv.err # Nil THEN Append(h.errs, Err(kind)) ELSE h.errs]

Latitude(h, conv) ==
    Assigned(h, [h.s EXCEPT !.LocatedAt.Latitude = conv.val], conv,
             "error parsing latitude")

Longitude(h, conv) ==
    Assigned(h, [h.s EXCEPT !.LocatedAt.Longitude = conv.val], conv,
             "error parsing longitude")

Elevation(h, conv) ==
    Assigned(h, [h.s EXCEPT !.LocatedAt.Elevation = conv.val], conv,
             "error parsing elevation")

Version(h, conv) ==
    Assigned(h, [h.s EXCEPT !.Version = conv.val], conv,
             "error parsing version")

HeaderResult(h, ok) == [s |-> h.s, err |-> Join(h.errs), ok |-> ok]

ParseHeaderVersion(h, headerInfo) ==
    IF Len(headerInfo) < 6 THEN HeaderResult(h, FALSE)
    ELSE HeaderResult(Version(h, Atoi(headerInfo[6])), TRUE)

ParseHeaderElevation(h, headerInfo) ==
    IF Len(headerInfo) = 2 THEN HeaderResult(h, FALSE)
    ELSE ParseHeaderVersion(Elevation(h, Atoi(headerInfo[3])), headerInfo)

ParseHeaderLongitude(h, headerInfo) ==
    IF Len(headerInfo) = 1 THEN HeaderResult(h, FALSE)
    ELSE ParseHeaderElevation(Longitude(h, ParseFloat(headerInfo[2])), headerInfo)

\* ParseHeader reporting success for a header of latitude and longitude only
ParseHeaderOfTwo(s, headerInfo) ==
    IF Len(headerInfo) = 0 THEN HeaderResult(HeaderStart(s, headerInfo), FALSE)
    ELSE IF Len(headerInfo) = 2
    THEN HeaderResult(
            Longitude(Latitude(HeaderStart(s, headerInfo), ParseFloat(headerInfo[1])),
                      ParseFloat(headerInfo[2])),
            TRUE)
    ELSE ParseHeaderLongitude(
            Latitude(HeaderStart(s, headerInfo), ParseFloat(headerInfo[1])),
            headerInfo)

ParseHeader(s, headerInfo) ==
    IF Len(headerInfo) = 0 THEN HeaderResult(HeaderStart(s, headerInfo), FALSE)
    ELSE ParseHeaderLongitude(
            Latitude(HeaderStart(s, headerInfo), ParseFloat(headerInfo[1])),
            headerInfo)

---------------------------------------------------------------------------
(* ReadData *)

\* The activation of ReadData.  pc is the statement it stands at: the Scan
\* of line 1 ("name"), the Scan of line 2 ("header"), the Scan of the for
\* loop ("loop"), or one of its three returns: after the header ("aborted"),
\* on a scanner error ("failed"), after the loop ("done").  header, lines and
\* parseCalls record what was handed to ParseHeader, which data lines the
\* loop body took, and how often ParseLine was called; first records the
\* text of line 1.
NewRun ==
    [pc         |-> "name",
     scanner    |-> NewScanner,
     text       |-> <<>>,
     station    |-> NewStation,
     errs       |-> <<>>,
     lineNo     |-> 0,
     ret        |-> Nil,
     first      |-> [seen |-> FALSE, text |-> <<>>],
     header     |-> [seen |-> FALSE, fields |-> <<>>],
     lines      |-> <<>>,
     parseCalls |-> 0]

Return(r, pc) == [r EXCEPT !.pc = pc, !.ret = Join(r.errs)]

AppendErr(r, e) == [r EXCEPT !.errs = Append(@, e)]

\* the first Scan and the station name
NameRead(r, sn) ==
    IF ~ValidateStationName(sn)
    THEN AppendErr([r EXCEPT !.station.StationName = sn],
                   Err("invalid or unknown station name"))
    ELSE [r EXCEPT !.station.StationName = sn]

NameScanned(r, s) ==
    IF ~s.ok THEN [r EXCEPT !.scanner = s.scanner, !.pc = "header"]
    ELSE NameRead([r EXCEPT !.scanner = s.scanner, !.pc = "header", !.text = s.text,
                            !.first = [seen |-> TRUE, text |-> s.text]],
                  TrimSpace(s.text))

\* ReadData returning at once on an unregistered station name
ReadNameStrict(r, o) ==
    IF o.tok /\ ~ValidateStationName(TrimSpace(o.text))
    THEN Return(NameScanned(r, Scan(r.scanner, o)), "aborted")
    ELSE NameScanned(r, Scan(r.scanner, o))

ReadName(r, o) == NameScanned(r, Scan(r.scanner, o))

\* the second Scan and ParseHeader
HeaderParsed(r, h) ==
    IF ~h.ok
    THEN Return(IF h.err # Nil THEN AppendErr([r EXCEPT !.station = h.s], h.err)
                ELSE [r EXCEPT !.station = h.s],
                "aborted")
    ELSE IF h.err # Nil THEN AppendErr([r EXCEPT !.station = h.s], h.err)
    ELSE [r EXCEPT !.station = h.s]

HeaderFieldsRead(r, headerInfo) ==
    HeaderParsed([r EXCEPT !.header = [seen |-> TRUE, fields |-> headerInfo]],
                 ParseHeader(r.station, headerInfo))

HeaderScanned(r, s) ==
    IF ~s.ok THEN [r EXCEPT !.scanner = s.scanner, !.pc = "loop"]
    ELSE HeaderFieldsRead(
            [r EXCEPT !.scanner = s.scanner, !.pc = "loop", !.text = s.text],
            Fields(s.text))

ReadHeader(r, o) == HeaderScanned(r, Scan(r.scanner, o))

\* the body of the for loop, from lineNo++ on
Decoded(r, rec) ==
    IF rec.err # Nil THEN AppendErr(r, rec.err)
    ELSE [r EXCEPT !.station.Entries = Append(@, rec.data)]

\* the loop body appending the entry also when ParseLine reports an error
LoopFieldsKeeping(r, fields) ==
    IF Len(fields) < 29
    THEN AppendErr(r, [kind |-> "incomplete record on line", line |-> r.lineNo])
    ELSE Decoded([r EXCEPT !.parseCalls = @ + 1,
                           !.errs = IF ParseLine(fields).err # Nil
                                    THEN Append(@, ParseLine(fields).err) ELSE @],
                 [ParseLine(fields) EXCEPT !.err = Nil])

\* the loop body without the continue that skips a short line
LoopFieldsNoSkip(r, fields) ==
    IF Len(fields) < 29
    THEN Decoded([AppendErr(r, [kind |-> "incomplete record on line",
                                line |-> r.lineNo])
                    EXCEPT !.parseCalls = @ + 1],
                 ParseLine(fields))
    ELSE Decoded([r EXCEPT !.parseCalls = @ + 1], ParseLine(fields))

LoopFields(r, fields) ==
    IF Len(fields) < 29
    THEN AppendErr(r, [kind |-> "incomplete record on line", line |-> r.lineNo])
    ELSE Decoded([r EXCEPT !.parseCalls = @ + 1], ParseLine(fields))

LoopBody(r, fields) ==
    LoopFields([r EXCEPT !.lineNo = @ + 1, !.lines = Append(@, fields)], fields)

\* the Scan of the for statement, the check of scanner.Err and the body
LineScanned(r, s) ==
    IF ~s.ok THEN Return([r EXCEPT !.scanner = s.scanner], "done")
    ELSE IF ScanErr(s.scanner) # Nil
    THEN Return(AppendErr([r EXCEPT !.scanner = s.scanner, !.text = s.text],
                          ScanErr(s.scanner)),
                "failed")
    ELSE LoopBody([r EXCEPT !.scanner = s.scanner, !.text = s.text], Fields(s.text))

ReadLine(r, o) == LineScanned(r, Scan(r.scanner, o))

---------------------------------------------------------------------------
(* The streams offered to ReadData *)

\* the tokens of a line separated by single spaces
RECURSIVE Spaced(_)
Spaced(fields) ==
    IF Len(fields) <= 1 THEN fields
    ELSE <<Head(fields), <<" ">>>> \o Spaced(Tail(fields))

Indented(line) == <<<<" ">>, <<" ">>>> \o line \o <<<<"\t">>>>

NameLines ==
    { StationDesertRock,
      <<" ">> \o StationBondville \o <<"\t", " ">>,
      <<"Nowhere,", " ", "Narnia">> }

\* the second line of a SURFRAD file: latitude, longitude, elevation, "m",
\* "version", the version
HeaderFields ==
    << Dec(36, <<"6", "2", "4">>), Neg(Dec(116, <<"0", "1", "9">>)), Num(1007),
       <<"m">>, <<"v", "e", "r", "s", "i", "o", "n">>, Num(1) >>

HeaderLines ==
    { Spaced(Cut(HeaderFields, n)) : n \in 1..7 }
    \cup { <<<<" ">>>>,
           Spaced(Poke(HeaderFields, 2, <<"m">>)),
           Spaced(Poke(Cut(HeaderFields, 3), 0, <<"N">>)) }

DataLines ==
    { Spaced(Cut(ValidLine, 48)),
      Indented(Spaced(Cut(ValidLine, 46))),
      Spaced(Cut(ValidLine, 29)),
      Spaced(Cut(ValidLine, 28)),
      <<>>,
      Spaced(MissingLine),
      Spaced(Poke(ValidLine, 3, <<"1", "7", ".", "0">>)),
      Spaced(Poke(Cut(ValidLine, 30), 0, <<"n", "/", "a">>)) }

\* what the reader may do at a Scan that offers the lines of set L
Offers(L) ==
    { Line(l) : l \in L }
    \cup { LastLine(l, "unexpected EOF") : l \in L }
    \cup { Stop(e) : e \in {"EOF", "unexpected EOF", "token too long"} }

\* a scanner that has stopped is offered nothing more
OffersTo(r, L) == IF r.scanner.err # "nil" THEN {Stop("EOF")} ELSE Offers(L)

---------------------------------------------------------------------------
(* The two companion calls *)

\* the stream of nameTwin: line 1 carries a registered name where the
\* stream of rd carries an unregistered one
WithValidName(o) ==
    IF o.tok /\ ~ValidateStationName(TrimSpace(o.text))
    THEN [o EXCEPT !.text = StationDesertRock]
    ELSE o

\* a data line that the loop body takes and that has fewer than 29 tokens
ShortLine(r, o) ==
    r.scanner.err = "nil" /\ o.tok /\ o.err = "nil" /\ Len(Fields(o.text)) < 29

---------------------------------------------------------------------------
(* The next-state relation of a ReadData call *)

Init ==
    /\ rd = NewRun
    /\ nameTwin = NewRun
    /\ skipTwin = NewRun
    /\ call = NoCall
    /\ out = NoOut

StepName ==
    /\ rd.pc = "name"
    /\ \E o \in OffersTo(rd, NameLines) :
        /\ rd' = ReadName(rd, o)
        /\ nameTwin' = ReadName(nameTwin, WithValidName(o))
        /\ skipTwin' = ReadName(skipTwin, o)
    /\ UNCHANGED <<call, out>>

StepHeader ==
    /\ rd.pc = "header"
    /\ \E o \in OffersTo(rd, HeaderLines) :
        /\ rd' = ReadHeader(rd, o)
        /\ nameTwin' = ReadHeader(nameTwin, o)
        /\ skipTwin' = ReadHeader(skipTwin, o)
    /\ UNCHANGED <<call, out>>

StepLine ==
    /\ rd.pc = "loop"
    /\ \E o \in OffersTo(rd, IF rd.lineNo < MaxLines THEN DataLines ELSE {}) :
        /\ rd' = ReadLine(rd, o)
        /\ nameTwin' = ReadLine(nameTwin, o)
        /\ skipTwin' = IF ShortLine(rd, o) THEN skipTwin ELSE ReadLine(skipTwin, o)
    /\ UNCHANGED <<call, out>>

Next == StepName \/ StepHeader \/ StepLine

Spec == Init /\ [][Next]_vars

\* direct calls and ReadData calls together
InitAll == Init \/ InitLib

NextAll == Next \/ NextLib

SpecAll == InitAll /\ [][NextAll]_vars

---------------------------------------------------------------------------
(* Vocabulary of the properties *)

Last(seq) == seq[Len(seq)]

IsPrefix(a, b) == Len(a) <= Len(b) /\ SubSeq(b, 1, Len(a)) = a

\* the six integer timestamp tokens of a token list convert
TimestampParses(fields) ==
    Len(fields) >= 7 /\ \A k \in 1..6 : Atoi(fields[k]).err = Nil

\* the errors ReadData records for single data lines
LineErrKinds ==
    {"incomplete record on line", "incomplete record", "incomplete timestamp",
     "strconv.Atoi: invalid syntax"}

LineErrs(r) == SelectSeq(r.errs, LAMBDA e : e.kind \in LineErrKinds)

\* the aggregate error holds an error of the given kind, at top level or
\* inside a joined error
Holds(agg, kind) ==
    /\ agg # Nil
    /\ \E i \in 1..Len(agg.errs) :
        \/ agg.errs[i].kind = kind
        \/ /\ agg.errs[i].kind = "join"
           /\ \E j \in 1..Len(agg.errs[i].errs) : agg.errs[i].errs[j].kind = kind

---------------------------------------------------------------------------
(* Properties of ReadData *)

\* a data line of 29 to 46 tokens whose six integer timestamp tokens convert
PartialLine(fields) ==
    Len(fields) >= 29 /\ Len(fields) <= 46 /\ TimestampParses(fields)

\* C1: when the data line the loop body took last has 29 to 46 tokens and
\* its six integer timestamp tokens convert, the partially populated entry
\* decoded from it is the last entry of the station and an "incomplete
\* record" error is the last error recorded: the line is kept, not dropped.
C1_PartialLineKept ==
    (rd.pc \in {"loop", "done", "failed"} /\ rd.lines # <<>>
        /\ PartialLine(Last(rd.lines)))
    => /\ rd.station.Entries # <<>>
       /\ Last(rd.station.Entries) = ParseLine(Last(rd.lines)).data
       /\ rd.errs # <<>>
       /\ Last(rd.errs).kind = "incomplete record"

\* the location and version that a header's fields denote
HeaderLocation(hi) ==
    [Latitude  |-> ParseFloat(hi[1]).val,
     Longitude |-> ParseFloat(hi[2]).val,
     Elevation |-> Atoi(hi[3]).val]

HeaderVersion(hi) == IF Len(hi) >= 6 THEN Atoi(hi[6]).val ELSE 0

\* C2: once a header of at least 3 fields has been read, ReadData has not
\* returned at the header, the location holds the values of fields 0, 1 and 2
\* and the version holds the value of field 5 when there are 6 fields or
\* more, and is left alone otherwise.
C2_HeaderOfThreeContinues ==
    (rd.pc # "idle" /\ rd.header.seen /\ Len(rd.header.fields) >= 3)
    => /\ rd.pc # "aborted"
       /\ rd.station.LocatedAt = HeaderLocation(rd.header.fields)
       /\ rd.station.Version = HeaderVersion(rd.header.fields)

\* C3: once a header of fewer than 3 fields has been read, ReadData has
\* returned at the header with an empty entry sequence and a non-nil
\* aggregate error that holds the header-length error.
C3_ShortHeaderAborts ==
    (rd.pc # "idle" /\ rd.header.seen /\ Len(rd.header.fields) < 3)
    => /\ rd.pc = "aborted"
       /\ rd.station.Entries = <<>>
       /\ rd.ret # Nil
       /\ Holds(rd.ret, "invalid header length")

C3_Witness ==
    /\ rd.pc = "aborted"
    /\ rd.header.seen
    /\ Len(rd.header.fields) = 2
    /\ rd.station.LocatedAt.Longitude # 0

ShortLines(r) == SelectSeq(r.lines, LAMBDA f : Len(f) < 29)

\* C4: the short data lines (fewer than 29 tokens) taken so far have each
\* added one error and no entry and have not reached ParseLine, and the
\* entries, the other errors and the calls of ParseLine are those of the
\* same call on the stream without its short lines.
C4_ShortLineSkipped ==
    rd.pc # "idle"
    => /\ rd.station.Entries = skipTwin.station.Entries
       /\ Len(rd.errs) = Len(skipTwin.errs) + Len(ShortLines(rd))
       /\ Len(SelectSeq(rd.errs, LAMBDA e : e.kind = "incomplete record on line"))
            = Len(ShortLines(rd))
       /\ rd.parseCalls = Len(rd.lines) - Len(ShortLines(rd))
       /\ rd.parseCalls = skipTwin.parseCalls
       /\ ShortLines(skipTwin) = <<>>

C4_Witness ==
    /\ rd.pc = "done"
    /\ Len(rd.lines) = 2
    /\ Len(rd.lines[1]) = 28
    /\ Len(rd.lines[2]) = 48
    /\ rd.station.Entries = <<ParseLine(ValidLine).data>>
    /\ Len(skipTwin.lines) = 1

\* C5: when line 1 was read and its trimmed text is not a registered name,
\* one error is recorded for it, the station carries that text as its name,
\* and the call stands where the call on the same stream with a registered
\* name on line 1 stands, with the same location, version and entries.
C5_UnknownNameKeepsParsing ==
    (rd.pc # "idle" /\ rd.first.seen
        /\ TrimSpace(rd.first.text) \notin DOMAIN NameToStationID)
    => /\ rd.station.StationName = TrimSpace(rd.first.text)
       /\ rd.errs # <<>>
       /\ rd.errs[1].kind = "invalid or unknown station name"
       /\ Len(rd.errs) = Len(nameTwin.errs) + 1
       /\ nameTwin.station.StationName \in DOMAIN NameToStationID
       /\ rd.pc = nameTwin.pc
       /\ rd.station.LocatedAt = nameTwin.station.LocatedAt
       /\ rd.station.Version = nameTwin.station.Version
       /\ rd.station.Entries = nameTwin.station.Entries

C5_Witness ==
    /\ rd.pc = "done"
    /\ rd.station.StationName = <<"Nowhere,", " ", "Narnia">>
    /\ Len(rd.station.Entries) = 2
    /\ rd.station.Version = 1
    /\ nameTwin.station.StationName = StationDesertRock

\* a data line for which the loop body records no error
ErrorFree(fields) == Len(fields) >= 29 /\ ParseLine(fields).err = Nil

Decodings(lines) == [k \in 1..Len(lines) |-> ParseLine(lines[k]).data]

\* every data line taken so far has given one entry or one error
OneOutcomeEach ==
    rd.pc \in {"loop", "failed", "done"}
    => /\ Len(rd.lines) = rd.lineNo
       /\ Len(rd.station.Entries) + Len(LineErrs(rd)) = rd.lineNo
       /\ rd.station.Entries = Decodings(SelectSeq(rd.lines, ErrorFree))

\* a pass of the loop body appends one entry or records one error, never
\* both; no step removes or changes an entry
OneOutcomeStep ==
    /\ IsPrefix(rd.station.Entries, rd'.station.Entries)
    /\ rd'.lineNo = rd.lineNo + 1
        => \/ /\ Len(rd'.station.Entries) = Len(rd.station.Entries) + 1
              /\ rd'.errs = rd.errs
           \/ /\ rd'.station.Entries = rd.station.Entries
              /\ Len(rd'.errs) = Len(rd.errs) + 1

\* C10: at every pass of the data-line loop and at return from it, each data
\* line taken so far has given exactly one entry or exactly one error, the
\* entries are the decodings of the error-free lines in stream order, and
\* entries are only ever appended.
C10_OneOutcomePerLine == []OneOutcomeEach /\ [][OneOutcomeStep]_vars

C10_Witness ==
    /\ rd.pc = "done"
    /\ rd.lineNo = 2
    /\ Len(rd.lines[1]) = 46
    /\ Len(rd.lines[2]) = 48
    /\ Len(rd.station.Entries) = 1
    /\ Len(LineErrs(rd)) = 1

\* the errors with which a read of the stream fails: a non-EOF error of the
\* underlying reader, or bufio.ErrTooLong for a line beyond the buffer
ReadFailures == {"unexpected EOF", "token too long"}

\* the Scan of the for statement met a read failure
FailsInLoop ==
    /\ rd.pc = "loop"
    /\ rd.scanner.err = "nil"
    /\ rd'.scanner.err \in ReadFailures

\* the call has returned its station and an aggregate that holds the failure
FailureReported(before, after) ==
    /\ after.pc \in {"failed", "done"}
    /\ Holds(after.ret, after.scanner.err)
    /\ after.station.Entries = before.station.Entries

\* C11: when the Scan of the data-line loop meets a read failure (a non-EOF
\* error of the reader, or a line beyond the scanner's buffer), ReadData
\* returns the entries accumulated before it and a non-nil aggregate error
\* that holds the read failure.
C11_ReadFailureReported == [][FailsInLoop => FailureReported(rd, rd')]_vars

---------------------------------------------------------------------------
(* Properties of the decoder, the normaliser and the registry *)

ReturnedFrom(fn) == call.fn = fn /\ out.done

\* the published layout: the index (from 0) of the token of the k-th
\* measurement: 7 for the zenith angle, then every second index from 8
TokenIndex(k) == IF k = 1 THEN 7 ELSE 8 + 2 * (k - 2)

\* the value of the token of the k-th measurement, 0 for a token that is
\* absent or is no number
TokenValue(fields, k) ==
    IF TokenIndex(k) + 1 > Len(fields) THEN 0
    ELSE IF ParseFloat(fields[TokenIndex(k) + 1]).err # Nil THEN 0
    ELSE ParseFloat(fields[TokenIndex(k) + 1]).val

NoSentinel(d) == \A m \in MeasurementSet : d[m] # SentinelFloat

\* C6: no entry returned by ParseLine, and no entry of the station that
\* ReadData builds, holds -9999.9 in a measurement; a measurement whose token
\* is -9999.9 is 0 in the entry; a line of 47 or more tokens whose
\* measurement tokens are all -9999.9 decodes without error to 21 zeros.
C6_NoSentinelMeasurement ==
    /\ ReturnedFrom("ParseLine")
        => /\ NoSentinel(out.val.data)
           /\ \A k \in 1..21 :
                (TimestampParses(call.arg)
                    /\ TokenValue(call.arg, k) = SentinelFloat)
                => out.val.data[Measurements[k]] = 0
           /\ (Len(call.arg) >= 47 /\ TimestampParses(call.arg)
                 /\ \A k \in 1..21 : TokenValue(call.arg, k) = SentinelFloat)
                => /\ out.val.err = Nil
                   /\ \A m \in MeasurementSet : out.val.data[m] = 0
    /\ rd.pc # "idle"
        => \A i \in 1..Len(rd.station.Entries) : NoSentinel(rd.station.Entries[i])

C6_Witness ==
    /\ ReturnedFrom("ParseLine")
    /\ call.arg = MissingLine
    /\ out.val.err = Nil
    /\ \A m \in MeasurementSet : out.val.data[m] = 0
    /\ out.val.data.RawTimestamp.Year = 1995

\* the entry that the positional mapping of the format gives, each
\* measurement being the value of its token
Positional(fields) ==
    [name \in DataFields |->
        IF name = "RawTimestamp"
        THEN [Year    |-> Atoi(fields[1]).val, JDay   |-> Atoi(fields[2]).val,
              Month   |-> Atoi(fields[3]).val, Day    |-> Atoi(fields[4]).val,
              Hour    |-> Atoi(fields[5]).val, Minute |-> Atoi(fields[6]).val,
              Decimal |-> parseFloat(fields[7])]
        ELSE IF name = "Timestamp"
        THEN Date(Atoi(fields[1]).val, Atoi(fields[3]).val, Atoi(fields[4]).val,
                  Atoi(fields[5]).val, Atoi(fields[6]).val)
        ELSE TokenValue(fields, CHOOSE k \in 1..21 : Measurements[k] = name)]

\* the same with a measurement whose token is -9999.9 set to 0
PositionalNormalised(fields) ==
    [name \in DataFields |->
        IF name \in MeasurementSet /\ Positional(fields)[name] = SentinelFloat
        THEN 0
        ELSE Positional(fields)[name]]

\* C7 as stated: a list of 47 or more tokens whose tokens 0 to 5 convert to
\* integers decodes without error to the positional mapping, each
\* measurement being the value of its token, or 0 when the token is no number.
C7_PositionalMapping ==
    (ReturnedFrom("ParseLine") /\ Len(call.arg) >= 47 /\ TimestampParses(call.arg))
    => /\ out.val.err = Nil
       /\ out.val.data = Positional(call.arg)

\* C7 as amended: ... each measurement being the value of its token, or 0
\* when the token is no number or its value is the sentinel -9999.9; the
\* quality-control tokens, the Julian-day token and the decimal-time token
\* enter no measurement and not the timestamp.
C7_PositionalMappingNormalised ==
    (ReturnedFrom("ParseLine") /\ Len(call.arg) >= 47 /\ TimestampParses(call.arg))
    => /\ out.val.err = Nil
       /\ out.val.data = PositionalNormalised(call.arg)

C7_Witness ==
    /\ ReturnedFrom("ParseLine")
    /\ call.arg = Poke(ValidLine, 9, Missing)
    /\ out.val.err = Nil
    /\ out.val.data.SolarZenithAngle = 74 * Scale + 37 * (Scale \div 100)
    /\ out.val.data.DownwellingSolar = 136 * Scale + 8 * (Scale \div 10)
    /\ out.val.data.TemperatureC = 15 * Scale + Scale \div 10
    /\ out.val.data.Timestamp = Date(2024, 2, 17, 23, 59)

Zeroed(v, sentinel) == IF v = sentinel THEN 0 ELSE v

\* C8: after OmitInvalidOrMissing, every float64 of the entry (the decimal
\* time and the 21 measurements) that held -9999.9 is 0, every int of the
\* entry (year, Julian day, month, day, hour, minute) that held -9999 is 0,
\* and every other field is unchanged.
C8_EverySentinelZeroed ==
    ReturnedFrom("OmitInvalidOrMissing")
    => /\ \A m \in MeasurementSet : out.val[m] = Zeroed(call.arg[m], SentinelFloat)
       /\ out.val.RawTimestamp.Decimal
            = Zeroed(call.arg.RawTimestamp.Decimal, SentinelFloat)
       /\ \A k \in 1..6 :
            out.val.RawTimestamp[RawIntFields[k]]
                = Zeroed(call.arg.RawTimestamp[RawIntFields[k]], SentinelInt)
       /\ out.val.Timestamp = call.arg.Timestamp

\* the seven stations of the network: code and name
Registered ==
    { << <<"b", "o", "n">>, <<"Bondville">> >>,
      << <<"f", "p", "k">>, <<"Fort", " ", "Peck">> >>,
      << <<"g", "w", "n">>, <<"Goodwin", " ", "Creek">> >>,
      << <<"t", "b", "l">>, <<"Table", " ", "Mountain">> >>,
      << <<"d", "r", "a">>, <<"Desert", " ", "Rock">> >>,
      << <<"p", "s", "u">>, <<"Penn", " ", "State">> >>,
      << <<"s", "x", "f">>, <<"Sioux", " ", "Falls">> >> }

RegisteredIDs == {p[1] : p \in Registered}

RegisteredNames == {p[2] : p \in Registered}

\* C9: for a registered code, GetStationName finds its name and GetStationID
\* of that name finds the code; for a registered name, GetStationID finds its
\* code and GetStationName of that code finds the name; for any other code or
\* name, the validity predicate is false and the lookup reports not found.
C9_RegistryBijection ==
    /\ ReturnedFrom("GetStationName")
        => IF call.arg \in RegisteredIDs
           THEN /\ out.val.ok
                /\ <<call.arg, out.val.sn>> \in Registered
                /\ GetStationID(out.val.sn) = [sid |-> call.arg, ok |-> TRUE]
           ELSE ~out.val.ok /\ out.val.sn = NoStationName
    /\ ReturnedFrom("GetStationID")
        => IF call.arg \in RegisteredNames
           THEN /\ out.val.ok
                /\ <<out.val.sid, call.arg>> \in Registered
                /\ GetStationName(out.val.sid) = [sn |-> call.arg, ok |-> TRUE]
           ELSE ~out.val.ok /\ out.val.sid = NoStationID
    /\ ReturnedFrom("ValidateStationID") => out.val = (call.arg \in RegisteredIDs)
    /\ ReturnedFrom("ValidateStationName") => out.val = (call.arg \in RegisteredNames)

C9_Witness ==
    /\ ReturnedFrom("GetStationName")
    /\ call.arg = <<"s", "x", "f">>
    /\ out.val = [sn |-> <<"Sioux", " ", "Falls">>, ok |-> TRUE]

=============================================================================
